---------------------------- MODULE Spec2Model ----------------------------
(***************************************************************************)
(* Smart Travel Planner (src/app.py): a Streamlit script that, on each     *)
(* execution, reads the sidebar key and the trip form, and on a submission *)
(* with a key runs TravelCrew.execute_plan, which calls the completion     *)
(* gateway once per agent, and appends the result to the session history.  *)
(*                                                                         *)
(* One session of the script is modelled.  A script execution is split at  *)
(* its only blocking points, the gateway calls inside Agent.execute_task.  *)
(* Strings are TLA+ strings; the failure marker's glyph (U+274C) is        *)
(* written "[x]" because TLA+ string literals are ASCII.                   *)
(***************************************************************************)
EXTENDS Integers, Sequences, FiniteSets, TLC

VARIABLES
    agents,      \* TravelCrew.agents: the declared agent list
    environ,     \* os.environ["GROQ_API_KEY"], process-wide
    api_key,     \* sidebar text input of the current execution
    submitted,   \* form_submit_button's value in the current execution
    date_range,  \* value returned by st.date_input in the current execution
    dates,       \* the dates string computed from date_range
    details,     \* the Trip Request passed to execute_plan
    results,     \* the results dict of execute_plan / of the script
    idx,         \* position of execute_plan's loop (1-based)
    pc,          \* "idle": no execution in progress; "calling": blocked in completion()
    history,     \* st.session_state.history
    shown,       \* the "Previous Plans" list as last rendered
    clock,       \* the wall clock, in minutes
    gatewayLog,  \* the gateway's record of the current execution's calls
    started,     \* number of planning runs started in the session
    completed    \* the Plan Results execute_plan has returned, in order

vars == <<agents, environ, api_key, submitted, date_range, dates, details,
          results, idx, pc, history, shown, clock, gatewayLog, started, completed>>

-----------------------------------------------------------------------------
(* Bounds of the model *)

MaxRuns == 2        \* planning runs per session under Spec and LiveSpec
MaxHistRuns == 4    \* planning runs per session under HistSpec
MaxAgents == 3      \* length of the agent lists drawn under CrewSpec
MaxClock == 1       \* minutes the clock may advance

(* Program constant: the slice history[-3:] of the history display *)
HistoryShown == 3

-----------------------------------------------------------------------------
(* Values *)

NoKey == ""                         \* an empty sidebar input (falsy)
Keys == {NoKey, "gsk_key"}
NoResults == <<>>                   \* `results` holds nothing in this execution
NoDetails == [unbound |-> TRUE]     \* `details` is not bound in this execution

FailureMarker == "[x] Error: "

Min(a, b) == IF a < b THEN a ELSE b

Range(s) == {s[j] : j \in 1..Len(s)}

RECURSIVE SeqsOfLen(_, _)
SeqsOfLen(S, n) ==
    IF n = 0 THEN {<<>>}
    ELSE {Append(s, x) : s \in SeqsOfLen(S, n - 1), x \in S}

SeqsUpTo(S, n) == UNION {SeqsOfLen(S, m) : m \in 0..n}

StartsWith(s, p) == Len(s) >= Len(p) /\ SubSeq(s, 1, Len(p)) = p

Contains(s, m) ==
    \E j \in 1..(Len(s) - Len(m) + 1) : SubSeq(s, j, j + Len(m) - 1) = m

-----------------------------------------------------------------------------
(* Tools and agents *)

Tool(name, description) == [name |-> name, description |-> description]

search_tool == Tool("Search", "Search travel info")

Agent(role, goal, backstory, tools) ==
    [role |-> role, goal |-> goal, backstory |-> backstory, tools |-> tools]

ConfiguredAgents ==
    << Agent("Flight Specialist", "Find best flights", "Airfare wizard", <<search_tool>>),
       Agent("Accommodation Expert", "Recommend hotels", "Hotel finder pro", <<search_tool>>),
       Agent("Activity Planner", "Create an itinerary", "Loves planning memorable trips",
             <<search_tool>>) >>

(* Agent lists a TravelCrew is constructed with under CrewSpec *)
Crews == {ConfiguredAgents} \cup SeqsUpTo(Range(ConfiguredAgents), MaxAgents)

RECURSIVE JoinLines(_)
JoinLines(lines) ==
    IF Len(lines) = 0 THEN ""
    ELSE IF Len(lines) = 1 THEN lines[1]
    ELSE lines[1] \o "\n" \o JoinLines(Tail(lines))

FormatTools(agent) ==
    JoinLines([j \in 1..Len(agent.tools) |->
                  "- " \o agent.tools[j].name \o ": " \o agent.tools[j].description])

GenerateTask(agent, d) ==
    "Plan a trip from " \o d.from_location \o " to " \o d.to \o " for "
        \o ToString(d.travelers) \o " travelers.\n"
        \o "- Dates: " \o d.dates \o "\n"
        \o "- Budget: $" \o ToString(d.budget) \o "\n"
        \o "- Preferences: " \o d.preferences \o "\n\n"
        \o "Your task: " \o agent.goal \o "\n"

Prompt(agent, task_description) ==
    "Role: " \o agent.role \o "\n"
        \o "Goal: " \o agent.goal \o "\n"
        \o "Background: " \o agent.backstory \o "\n\n"
        \o "Available Tools:\n" \o FormatTools(agent) \o "\n\n"
        \o "Task: " \o task_description \o "\n\n"
        \o "Please respond with a well-formatted markdown plan with headers, bullet points, and details.\n"

-----------------------------------------------------------------------------
(* The completion gateway: what one call to completion() does *)

Raise(exc, msg) == [kind |-> "raise", exc |-> exc, msg |-> msg]

Response(body) == [kind |-> "response", body |-> body]

TextBody(t) == [choices |-> << [message |-> [content |-> t]] >>]

TransportError == Raise("APIConnectionError", "Connection error.")
AuthError == Raise("AuthenticationError", "Invalid API Key")
NoChoicesBody == [error |-> "rate limited"]
EmptyChoicesBody == [choices |-> <<>>]

(* Every outcome of a call made for `agent`: generated text (a fixed text, *)
(* or the stub text "<role> plan"), a raised error, a malformed response.  *)
GatewayOutcomes(agent) ==
    { Response(TextBody("OK")), Response(TextBody(agent.role \o " plan")),
      TransportError, AuthError,
      Response(NoChoicesBody), Response(EmptyChoicesBody) }

(* The outcomes drawn under Spec, LiveSpec and HistSpec *)
BasicOutcomes == { Response(TextBody("OK")), TransportError }

(* response['choices'][0]['message']['content'] : the value, or the        *)
(* KeyError / IndexError the subscripting raises, with its str()           *)
Content(body) ==
    IF "choices" \notin DOMAIN body
      THEN [raised |-> TRUE, msg |-> "'choices'"]
    ELSE IF Len(body.choices) = 0
      THEN [raised |-> TRUE, msg |-> "list index out of range"]
    ELSE IF "message" \notin DOMAIN body.choices[1]
      THEN [raised |-> TRUE, msg |-> "'message'"]
    ELSE IF "content" \notin DOMAIN body.choices[1].message
      THEN [raised |-> TRUE, msg |-> "'content'"]
    ELSE [raised |-> FALSE, value |-> body.choices[1].message.content]

(* execute_task with the marker left out of the except branch *)
ExecuteTask_noMarker(o) ==
    IF o.kind = "raise"
      THEN o.msg
    ELSE LET r == Content(o.body)
         IN  IF r.raised THEN r.msg ELSE r.value

(* execute_task putting a heading in front of the generated text *)
ExecuteTask_heading(o) ==
    IF o.kind = "raise"
      THEN FailureMarker \o o.msg
    ELSE LET r == Content(o.body)
         IN  IF r.raised THEN FailureMarker \o r.msg ELSE "## Plan\n" \o r.value

(* Agent.execute_task from the point where completion() has produced o *)
ExecuteTask(o) ==
    IF o.kind = "raise"
      THEN FailureMarker \o o.msg
    ELSE LET r == Content(o.body)
         IN  IF r.raised THEN FailureMarker \o r.msg ELSE r.value

-----------------------------------------------------------------------------
(* The results dict: key/value pairs in insertion order *)

DictKeys(d) == {d[j][1] : j \in 1..Len(d)}

DictGet(d, k) == d[CHOOSE j \in 1..Len(d) : d[j][1] = k][2]

(* results.setdefault(k, v): the first value of a key is kept *)
DictSet_keepFirst(d, k, v) ==
    IF k \in DictKeys(d) THEN d ELSE Append(d, <<k, v>>)

(* a failed agent's text is not stored *)
DictSet_skipFailures(d, k, v) ==
    IF StartsWith(v, FailureMarker) THEN d
    ELSE IF k \in DictKeys(d)
      THEN [j \in 1..Len(d) |-> IF d[j][1] = k THEN <<k, v>> ELSE d[j]]
      ELSE Append(d, <<k, v>>)

DictSet(d, k, v) ==
    IF k \in DictKeys(d)
      THEN [j \in 1..Len(d) |-> IF d[j][1] = k THEN <<k, v>> ELSE d[j]]
      ELSE Append(d, <<k, v>>)

(* the loop stops at the first agent whose call failed *)
MoreAgents_abortOnFailure(i, ret) ==
    i < Len(agents) /\ ~StartsWith(ret, FailureMarker)

(* The for loop of execute_plan goes on to the next agent whatever the     *)
(* agent at position i returned                                            *)
MoreAgents(i, ret) == i < Len(agents)

-----------------------------------------------------------------------------
(* The trip form *)

Date(y, m, d) == [year |-> y, month |-> m, day |-> d]

MonthName ==
    << "January", "February", "March", "April", "May", "June", "July",
       "August", "September", "October", "November", "December" >>

Pad2(n) == IF n < 10 THEN "0" \o ToString(n) ELSE ToString(n)

(* date.strftime('%B %d, %Y') *)
Strftime(date) ==
    MonthName[date.month] \o " " \o Pad2(date.day) \o ", " \o ToString(date.year)

(* Values st.date_input yields for a range input: a container of 0 to 2    *)
(* dates.  Streamlit returns a tuple; the script tests for a list.         *)
DateInput(kind, value) == [kind |-> kind, value |-> value]

June01 == Date(2025, 6, 1)
June10 == Date(2025, 6, 10)

EmptyDateInput == DateInput("tuple", <<>>)

DateInputs ==
    { EmptyDateInput, DateInput("tuple", <<June01>>),
      DateInput("tuple", <<June01, June10>>),
      DateInput("list", <<>>), DateInput("list", <<June01, June10>>) }

RenderDates(dr) ==
    IF dr.kind = "list" /\ Len(dr.value) = 2
      THEN Strftime(dr.value[1]) \o " - " \o Strftime(dr.value[2])
      ELSE "Not selected"

TripRequest(d) ==
    [from_location |-> "New York", to |-> "Paris", dates |-> d,
     budget |-> 1500, travelers |-> 2, preferences |-> "Museums, beach, food"]

(* the block tests the stored process-wide key instead of the input *)
KeyPresent_environ(k, env) == env # NoKey

(* The condition `api_key` of the generate-plan block *)
KeyPresent(k, env) == k # NoKey

-----------------------------------------------------------------------------
(* The run history *)

(* datetime.now().strftime("%Y-%m-%d %H:%M"), the clock counting minutes *)
Timestamp(c) == "2025-06-01 10:" \o Pad2(c)

(* history[:3], the oldest entries *)
LastN_first(h, n) == SubSeq(h, 1, IF Len(h) > n THEN n ELSE Len(h))

LastN(h, n) == SubSeq(h, IF Len(h) > n THEN Len(h) - n + 1 ELSE 1, Len(h))

Reverse(s) == [j \in 1..Len(s) |-> s[Len(s) + 1 - j]]

(* reversed(st.session_state.history[-3:]) *)
HistoryDisplay(h) == Reverse(LastN(h, HistoryShown))

-----------------------------------------------------------------------------
(* The gateway's record of one execution's calls *)

CallEvent(i, d) ==
    [op |-> "call", agent |-> i, prompt |-> Prompt(agents[i], GenerateTask(agents[i], d))]

DoneEvent(i, o, ret) == [op |-> "done", agent |-> i, outcome |-> o, value |-> ret]

-----------------------------------------------------------------------------
(* Actions *)

(* the history is cut to its last HistoryShown entries when appended to *)
FinishRun_evicting(res) ==
    /\ results' = res
    /\ history' = LastN(Append(history, <<Timestamp(clock), res>>), HistoryShown)
    /\ shown' = HistoryDisplay(history')
    /\ completed' = Append(completed, res)
    /\ idx' = 0
    /\ pc' = "idle"

(* the history entry is not appended *)
FinishRun_noAppend(res) ==
    /\ results' = res
    /\ history' = history
    /\ shown' = HistoryDisplay(history')
    /\ completed' = Append(completed, res)
    /\ idx' = 0
    /\ pc' = "idle"

(* execute_plan has returned res: the history entry is appended and the    *)
(* rest of the script (plan and history display) runs to its end           *)
FinishRun(res) ==
    /\ results' = res
    /\ history' = Append(history, <<Timestamp(clock), res>>)
    /\ shown' = HistoryDisplay(history')
    /\ completed' = Append(completed, res)
    /\ idx' = 0
    /\ pc' = "idle"

(* crew.execute_plan(details) up to its first gateway call *)
StartPlan(d) ==
    /\ details' = d
    /\ started' = started + 1
    /\ IF Len(agents) = 0
         THEN FinishRun(<<>>) /\ gatewayLog' = <<>>
         ELSE /\ results' = <<>>
              /\ idx' = 1
              /\ pc' = "calling"
              /\ gatewayLog' = <<CallEvent(1, d)>>
              /\ UNCHANGED <<history, shown, completed>>

(* An execution that skips the generate-plan block *)
NoPlan ==
    /\ details' = NoDetails
    /\ results' = NoResults
    /\ idx' = 0
    /\ pc' = "idle"
    /\ gatewayLog' = <<>>
    /\ shown' = HistoryDisplay(history)
    /\ UNCHANGED <<history, started, completed>>

(* One execution of the script, from its top to its end or to its first    *)
(* gateway call: sidebar key k, submit button s, date input dr.  mayRun    *)
(* caps the number of planning runs of a behaviour.                        *)
Execute(k, s, dr, mayRun) ==
    /\ pc = "idle"
    /\ api_key' = k
    /\ environ' = IF k # NoKey THEN k ELSE environ
    /\ date_range' = dr
    /\ dates' = RenderDates(dr)
    /\ submitted' = s
    /\ IF s /\ KeyPresent(k, environ')
         THEN mayRun /\ StartPlan(TripRequest(dates'))
         ELSE NoPlan
    /\ UNCHANGED <<agents, clock>>

(* completion() returns or raises for the agent at idx; execute_task       *)
(* returns, the result is stored, and the loop goes on or the run ends     *)
CompletionResponds(o) ==
    /\ pc = "calling"
    /\ LET a == agents[idx]
           ret == ExecuteTask(o)
           res == DictSet(results, a.role, ret)
           log == Append(gatewayLog, DoneEvent(idx, o, ret))
       IN  IF MoreAgents(idx, ret)
             THEN /\ results' = res
                  /\ idx' = idx + 1
                  /\ gatewayLog' = Append(log, CallEvent(idx + 1, details))
                  /\ UNCHANGED <<pc, history, shown, completed>>
             ELSE FinishRun(res) /\ gatewayLog' = log
    /\ UNCHANGED <<agents, environ, api_key, submitted, date_range, dates,
                   details, clock, started>>

GatewayResponds ==
    /\ pc = "calling"
    /\ \E o \in GatewayOutcomes(agents[idx]) : CompletionResponds(o)

GatewayRespondsBasic == \E o \in BasicOutcomes : CompletionResponds(o)

(* A minute passes *)
Tick ==
    /\ clock < MaxClock
    /\ clock' = clock + 1
    /\ UNCHANGED <<agents, environ, api_key, submitted, date_range, dates, details,
                   results, idx, pc, history, shown, gatewayLog, started, completed>>

-----------------------------------------------------------------------------
(* Specifications *)

(* A new session, its widgets at their defaults, for a crew of crewSet *)
InitWith(crewSet) ==
    /\ agents \in crewSet
    /\ environ = NoKey
    /\ api_key = NoKey
    /\ submitted = FALSE
    /\ date_range = EmptyDateInput
    /\ dates = "Not selected"
    /\ details = NoDetails
    /\ results = NoResults
    /\ idx = 0
    /\ pc = "idle"
    /\ history = <<>>
    /\ shown = <<>>
    /\ clock = 0
    /\ gatewayLog = <<>>
    /\ started = 0
    /\ completed = <<>>

(* The script with its three configured agents, every form input *)
Init == InitWith({ConfiguredAgents})

Next ==
    \/ \E k \in Keys, s \in BOOLEAN, dr \in DateInputs :
           Execute(k, s, dr, Len(history) < MaxRuns)
    \/ GatewayRespondsBasic
    \/ Tick

Spec == Init /\ [][Next]_vars

LiveSpec == Init /\ [][Next]_vars /\ WF_vars(GatewayRespondsBasic)

(* One planning run of a TravelCrew built from any agent list of Crews,    *)
(* every gateway outcome                                                   *)
CrewInit == InitWith(Crews)

CrewNext ==
    \/ \E k \in Keys, s \in BOOLEAN : Execute(k, s, EmptyDateInput, history = <<>>)
    \/ GatewayResponds
    \/ Tick

CrewSpec == CrewInit /\ [][CrewNext]_vars

(* Sessions of up to MaxHistRuns planning runs within one minute *)
HistNext ==
    \/ \E k \in Keys, s \in BOOLEAN :
           Execute(k, s, EmptyDateInput, Len(history) < MaxHistRuns)
    \/ GatewayRespondsBasic

HistSpec == Init /\ [][HistNext]_vars

-----------------------------------------------------------------------------
(* Vocabulary of the properties *)

(* The script has run to its end in an execution that ran execute_plan *)
RunComplete == pc = "idle" /\ submitted /\ api_key # NoKey

DeclaredRoles == {agents[j].role : j \in 1..Len(agents)}

RolesDistinct ==
    \A a, b \in 1..Len(agents) : a # b => agents[a].role # agents[b].role

CallEvents == {j \in 1..Len(gatewayLog) : gatewayLog[j].op = "call"}

DoneEvents == {j \in 1..Len(gatewayLog) : gatewayLog[j].op = "done"}

RoleOf(j) == agents[gatewayLog[j].agent].role

(* No call for the same role has returned after the one at position j *)
LastForRole(j) == \A m \in DoneEvents : m > j => RoleOf(m) # RoleOf(j)

IsText(o, t) == o.kind = "response" /\ o.body = TextBody(t)

GatewayFailed(o) ==
    o.kind = "raise" \/ o.body = NoChoicesBody \/ o.body = EmptyChoicesBody

(* str(e) of the error a failed call ends in *)
ErrorMessage(o) ==
    IF o.kind = "raise" THEN o.msg
    ELSE IF o.body = NoChoicesBody THEN "'choices'"
    ELSE "list index out of range"

Entry(role) == DictGet(results, role)

-----------------------------------------------------------------------------
(* C1: for a crew whose role names are pairwise distinct, execute_plan     *)
(* returns a mapping with exactly as many entries as declared agents and   *)
(* whose key set is the set of declared role names, whatever each gateway  *)
(* call did.                                                               *)
C1_OneEntryPerRole ==
    (RunComplete /\ RolesDistinct) =>
        /\ Len(results) = Len(agents)
        /\ Cardinality(DictKeys(results)) = Len(agents)
        /\ DictKeys(results) = DeclaredRoles

C1_Witness ==
    /\ RunComplete /\ RolesDistinct /\ Len(agents) = 3
    /\ \E j, m \in DoneEvents :
          /\ gatewayLog[j].outcome.kind = "raise"
          /\ gatewayLog[m].outcome.kind = "response"

(* C2: in a planning run the gateway is called once per declared agent, in *)
(* declared order, each call starting only after the previous one has      *)
(* returned or failed, and a failed call does not stop the later calls.    *)
C2_SequentialCalls ==
    /\ \A j \in 1..Len(gatewayLog) :
          /\ gatewayLog[j].op = (IF j % 2 = 1 THEN "call" ELSE "done")
          /\ gatewayLog[j].agent = (j + 1) \div 2
    /\ pc = "calling" => Len(gatewayLog) = 2 * idx - 1
    /\ RunComplete => Len(gatewayLog) = 2 * Len(agents)

C2_Witness ==
    /\ RunComplete /\ Len(agents) = 3 /\ Len(gatewayLog) = 6
    /\ gatewayLog[2].outcome.kind = "raise"
    /\ gatewayLog[5].agent = 3

(* C3: a failed gateway call (raised error or malformed response) makes    *)
(* execute_task return a string that begins with the failure marker and    *)
(* contains the error's message, and that string is the agent's entry.     *)
C3_FailureBecomesEntry ==
    \A j \in DoneEvents :
        GatewayFailed(gatewayLog[j].outcome) =>
            /\ StartsWith(gatewayLog[j].value, FailureMarker)
            /\ Contains(gatewayLog[j].value, ErrorMessage(gatewayLog[j].outcome))
            /\ LastForRole(j) =>
                  /\ RoleOf(j) \in DictKeys(results)
                  /\ Entry(RoleOf(j)) = gatewayLog[j].value

C3_Witness ==
    /\ RunComplete
    /\ \E j, m \in DoneEvents :
          /\ gatewayLog[j].outcome = AuthError
          /\ gatewayLog[m].outcome = Response(NoChoicesBody)
          /\ Entry(RoleOf(j)) = "[x] Error: Invalid API Key"

(* C4: generated text t of a successful call is the agent's entry,         *)
(* unchanged; a gateway answering "OK" throughout gives "OK" entries, and  *)
(* the three configured agents with a gateway answering "<role> plan" give *)
(* the mapping of each role to its own "<role> plan".                      *)
C4_TextVerbatim ==
    /\ \A j \in DoneEvents : \A t \in {"OK", RoleOf(j) \o " plan"} :
          IsText(gatewayLog[j].outcome, t) =>
              /\ gatewayLog[j].value = t
              /\ LastForRole(j) =>
                    /\ RoleOf(j) \in DictKeys(results)
                    /\ Entry(RoleOf(j)) = t
    /\ (RunComplete /\ \A j \in DoneEvents : IsText(gatewayLog[j].outcome, "OK")) =>
          /\ Len(results) = Cardinality(DeclaredRoles)
          /\ \A j \in 1..Len(results) : results[j][2] = "OK"
    /\ ( /\ RunComplete /\ agents = ConfiguredAgents
         /\ \A j \in DoneEvents : IsText(gatewayLog[j].outcome, RoleOf(j) \o " plan") ) =>
          results = << <<"Flight Specialist", "Flight Specialist plan">>,
                       <<"Accommodation Expert", "Accommodation Expert plan">>,
                       <<"Activity Planner", "Activity Planner plan">> >>

C4_Witness ==
    /\ RunComplete /\ agents = ConfiguredAgents
    /\ \A j \in DoneEvents : IsText(gatewayLog[j].outcome, RoleOf(j) \o " plan")
    /\ Entry("Accommodation Expert") = "Accommodation Expert plan"

(* C10: when declared agents share a role name, the gateway is still       *)
(* called once for each agent, and the result holds one entry per distinct *)
(* role name (fewer than the agents), that of the last agent with the role.*)
C10_LastAgentWins ==
    (RunComplete /\ ~RolesDistinct) =>
        /\ Cardinality(CallEvents) = Len(agents)
        /\ \A a \in 1..Len(agents) :
              Cardinality({j \in CallEvents : gatewayLog[j].agent = a}) = 1
        /\ Len(results) = Cardinality(DeclaredRoles)
        /\ Len(results) < Len(agents)
        /\ DictKeys(results) = DeclaredRoles
        /\ \A j \in DoneEvents :
              (\A a \in 1..Len(agents) :
                  a > gatewayLog[j].agent => agents[a].role # RoleOf(j))
                  => Entry(RoleOf(j)) = gatewayLog[j].value

C10_Witness ==
    /\ RunComplete /\ ~RolesDistinct /\ Len(results) = 1
    /\ gatewayLog[2].value = "OK"
    /\ Entry(agents[1].role) = "[x] Error: Connection error."

-----------------------------------------------------------------------------
(* C5: an execution whose submission comes with no API key in the sidebar  *)
(* starts no planning run: no gateway call, no Plan Result, history        *)
(* unchanged; also when an earlier execution stored a key in os.environ.   *)
C5_NoKeyNoRun ==
    [][(pc = "idle" /\ submitted' /\ api_key' = NoKey) =>
          /\ pc' = "idle"
          /\ history' = history
          /\ gatewayLog' = <<>>
          /\ results' = NoResults
          /\ started' = started
          /\ completed' = completed]_vars

C5_Witness ==
    /\ pc = "idle" /\ submitted /\ api_key = NoKey
    /\ environ # NoKey
    /\ Len(history) = 1 /\ started = 1 /\ gatewayLog = <<>>

C7_DisplayNewestFirst ==
    pc = "idle" =>
        /\ Len(shown) = Min(Len(completed), HistoryShown)
        /\ \A j \in 1..Len(shown) : shown[j][2] = completed[Len(completed) - j + 1]

C7_Witness ==
    /\ pc = "idle" /\ Len(completed) = 4 /\ Len(shown) = 3
    /\ shown[1][2] = completed[4] /\ shown[3][2] = completed[2]
    /\ Cardinality({completed[j] : j \in 1..4}) = 4

(* C8: the dates field is the two selected dates rendered as               *)
(* "Month DD, YYYY - Month DD, YYYY" whenever a pair of dates is selected, *)
(* and "Not selected" when the selection is empty.                         *)
C8_DatesRendered ==
    /\ Len(date_range.value) = 2 =>
          dates = Strftime(date_range.value[1]) \o " - " \o Strftime(date_range.value[2])
    /\ date_range.value = <<June01, June10>> => dates = "June 01, 2025 - June 10, 2025"
    /\ Len(date_range.value) = 0 => dates = "Not selected"

(* C9: every planning run that starts completes: each gateway call         *)
(* answering in the end, execute_plan returns and exactly one history      *)
(* entry with its result is appended before another submission is taken.   *)
C9_RunCompletes ==
    /\ \A n \in 1..MaxRuns :
          (pc = "calling" /\ started = n) ~>
              ( /\ pc = "idle" /\ started = n
                /\ Len(history) = n /\ history[n][2] = results
                /\ Len(completed) = n /\ completed[n] = results )
    /\ [](pc = "calling" => Len(history) = started - 1)
    /\ [](pc = "idle" => Len(history) = started)

C9_Witness ==
    /\ RunComplete /\ started = 2 /\ Len(history) = 2
    /\ history[2][2] = results /\ Len(results) = 3
    /\ history[1][2] # history[2][2]

=============================================================================
